---- MODULE Spec2Model ----
(***************************************************************************)
(* aiohttp/web.py: run_app (the lifecycle driver and the site-list         *)
(* builder) and main (the command-line entry point).                       *)
(*                                                                         *)
(* Every loop.run_until_complete(...) / loop.run_forever() call of run_app *)
(* is a point where the awaited coroutine can complete, raise an ordinary  *)
(* exception, or be left by an interrupt (GracefulExit, KeyboardInterrupt).*)
(* The runner and the sites (aiohttp/web_runner.py) are modelled by their  *)
(* contract: start() registers the site with the runner, cleanup() stops   *)
(* the registered sites in registration order.                             *)
(***************************************************************************)
EXTENDS Integers, Sequences, FiniteSets, TLC

\* ---------------------------------------------------------------- bounds
MaxHosts == 3
MaxPaths == 2
MaxSocks == 2

HostNames == {"a", "b"}
PathNames == {"/x"}
SockNames == {"s"}
Ports == {9}

RECURSIVE SeqsUpTo(_, _)
SeqsUpTo(S, n) ==
    IF n = 0 THEN {<<>>}
    ELSE LET shorter == SeqsUpTo(S, n - 1)
         IN  shorter \cup {Append(q, x) : q \in shorter, x \in S}

\* An optional argument: absent (None), one value, or a sequence of values.
None == [kind |-> "none", val |-> <<>>]
One(x) == [kind |-> "one", val |-> <<x>>]
Many(q) == [kind |-> "seq", val |-> q]

OptOneOrMany(S, n) ==
    {None} \cup {One(x) : x \in S} \cup {Many(q) : q \in SeqsUpTo(S, n)}

HostArgs == OptOneOrMany(HostNames, MaxHosts)
PathArgs == OptOneOrMany(PathNames, MaxPaths)
SockArgs == OptOneOrMany(SockNames, MaxSocks)
PortArgs == {None} \cup {One(x) : x \in Ports}

\* run_app's keyword defaults
DefaultShutdownTimeout == 60
DefaultBacklog == 128

\* The per-site options of one run_app call.
DefaultOpts ==
    [shutdown_timeout |-> DefaultShutdownTimeout, ssl_context |-> "None",
     backlog |-> DefaultBacklog, reuse_address |-> "None",
     reuse_port |-> "None"]

OptsArgs ==
    {DefaultOpts,
     [shutdown_timeout |-> 5, ssl_context |-> "ctx", backlog |-> 64,
      reuse_address |-> "True", reuse_port |-> "False"]}

\* UnixSite and SockSite are given no reuse_address / reuse_port argument.
NotPassed == "not passed"

InterruptKinds == {"GracefulExit", "KeyboardInterrupt"}
ErrorKinds == {"AppError", "SetupError", "ConstructError", "StartError",
               "ServeError"}

\* ------------------------------------------------------- the site builder
WildcardHost == "0.0.0.0"

TCPSite(h, p, o) ==
    [kind |-> "TCP", addr |-> h, port |-> p,
     shutdown_timeout |-> o.shutdown_timeout, ssl_context |-> o.ssl_context,
     backlog |-> o.backlog, reuse_address |-> o.reuse_address,
     reuse_port |-> o.reuse_port]

UnixSiteDefaultSsl(p, o) ==
    [kind |-> "Unix", addr |-> p, port |-> None,
     shutdown_timeout |-> o.shutdown_timeout, ssl_context |-> "None",
     backlog |-> o.backlog, reuse_address |-> NotPassed,
     reuse_port |-> NotPassed]

UnixSite(p, o) ==
    [kind |-> "Unix", addr |-> p, port |-> None,
     shutdown_timeout |-> o.shutdown_timeout, ssl_context |-> o.ssl_context,
     backlog |-> o.backlog, reuse_address |-> NotPassed,
     reuse_port |-> NotPassed]

SockSite(sk, o) ==
    [kind |-> "Sock", addr |-> sk, port |-> None,
     shutdown_timeout |-> o.shutdown_timeout, ssl_context |-> o.ssl_context,
     backlog |-> o.backlog, reuse_address |-> NotPassed,
     reuse_port |-> NotPassed]

\* isinstance(x, (str, bytes, bytearray, memoryview)): one value, not a
\* sequence to iterate over.
IsSingle(arg) == arg.kind = "one"

WildcardCondWrongPrecedence(po, pa, so) ==
    pa.kind = "none" /\ (so.kind = "none" \/ po.kind # "none")

WildcardCondNoDefault(po, pa, so) ==
    po.kind # "none"

\* elif path is None and sock is None or port is not None
WildcardCond(po, pa, so) ==
    (pa.kind = "none" /\ so.kind = "none") \/ po.kind # "none"

\* if host is not None: ... elif ...: the TCP sites appended to the list
HostBranch(h, po, pa, so, o) ==
    IF h.kind # "none"
    THEN IF IsSingle(h)
         THEN <<TCPSite(h.val[1], po, o)>>
         ELSE [i \in 1..Len(h.val) |-> TCPSite(h.val[i], po, o)]
    ELSE IF WildcardCond(po, pa, so)
         THEN <<TCPSite(WildcardHost, po, o)>>
         ELSE <<>>

\* if path is not None: the Unix sites appended to the list
PathBranch(pa, o) ==
    IF pa.kind # "none"
    THEN IF IsSingle(pa)
         THEN <<UnixSite(pa.val[1], o)>>
         ELSE [i \in 1..Len(pa.val) |-> UnixSite(pa.val[i], o)]
    ELSE <<>>

\* if sock is not None: the socket sites appended to the list
SockBranch(so, o) ==
    IF so.kind # "none"
    THEN IF IsSingle(so)
         THEN <<SockSite(so.val[1], o)>>
         ELSE [i \in 1..Len(so.val) |-> SockSite(so.val[i], o)]
    ELSE <<>>

\* The list `sites` as it stands when the start loop is reached.
BuildSites(h, po, pa, so, o) ==
    HostBranch(h, po, pa, so, o) \o PathBranch(pa, o) \o SockBranch(so, o)

\* ------------------------------------------------------------------ state
VARIABLES
    caller,        \* "direct": run_app called by a program; "main": by main
    argv,          \* main's parsed command line and platform
    host, port, path, sock, printOn,   \* run_app's arguments
    opts,          \* run_app's per-site options (shutdown_timeout, ...)
    pc,            \* position in main / run_app
    sites,         \* run_app's local list `sites`
    siteState,     \* per site of `sites`: created, started, failed, stopped
    nextSite,      \* index of the site the start loop is at
    registered,    \* runner's sites, in registration order
    exc,           \* exception in flight while the finally clause runs
    result,        \* how run_app ended: none, returned, raised
    raised,        \* the exception run_app raised to its caller
    setupDone,     \* runner.setup() has completed
    cleanupCalls,  \* number of times runner.cleanup() was invoked
    cleanupDone,   \* number of times runner.cleanup() ran to completion
    startCalls,    \* indices of the sites whose start() was invoked
    startedOk,     \* indices of the sites whose start() completed
    reports,       \* the 'Running on' messages printed, in order
    servedWith,    \* site states seen on each entry of loop.run_forever()
    interrupts,    \* phases in which an interrupt was delivered, in order
    loopClosed,    \* loop.close() has run
    factoryCalled, \* main called the application factory
    exitCode       \* process exit status decided by main (-1: none yet)

vars == <<caller, argv, host, port, path, sock, printOn, opts, pc, sites,
          siteState, nextSite, registered, exc, result, raised, setupDone,
          cleanupCalls, cleanupDone, startCalls, startedOk, reports,
          servedWith, interrupts, loopClosed, factoryCalled, exitCode>>

args == <<caller, argv, host, port, path, sock, printOn, opts>>
hist == <<startCalls, startedOk, reports, servedWith, interrupts>>

NoExc == [kind |-> "none", site |-> 0]
Exc(k, i) == [kind |-> k, site |-> i]

NoArgv == [entry |-> "none", hostname |-> "", port |-> 0, path |-> None,
           afUnix |-> TRUE]

\* main's argparse defaults
DefaultHostname == "localhost"
DefaultPort == 8080

EntryFuncs == {"ok", "bad_syntax", "relative", "no_module", "no_attr"}

Argvs == [entry : EntryFuncs,
          hostname : {DefaultHostname, "a"},
          port : {DefaultPort} \cup Ports,
          path : {None} \cup {One(x) : x \in PathNames},
          afUnix : BOOLEAN]

InitCommon ==
    /\ sites = <<>>
    /\ siteState = <<>>
    /\ nextSite = 0
    /\ registered = <<>>
    /\ exc = NoExc
    /\ result = "none"
    /\ raised = NoExc
    /\ setupDone = FALSE
    /\ cleanupCalls = 0
    /\ cleanupDone = 0
    /\ startCalls = {}
    /\ startedOk = {}
    /\ reports = <<>>
    /\ servedWith = <<>>
    /\ interrupts = <<>>
    /\ loopClosed = FALSE
    /\ factoryCalled = FALSE
    /\ exitCode = -1

\* A program calls run_app(app, host=..., port=..., path=..., sock=...).
InitDirect ==
    /\ caller = "direct"
    /\ argv = NoArgv
    /\ host \in HostArgs
    /\ port \in PortArgs
    /\ path \in PathArgs
    /\ sock \in SockArgs
    /\ printOn \in BOOLEAN
    /\ opts \in OptsArgs
    /\ pc = "app"

\* The process runs main(argv).
InitMain ==
    /\ caller = "main"
    /\ argv \in Argvs
    /\ host = None /\ port = None /\ path = None /\ sock = None
    /\ printOn = TRUE
    /\ opts = DefaultOpts
    /\ pc = "main_import"

Init == InitCommon /\ (InitDirect \/ InitMain)

\* ------------------------------------------------- names and the report
\* str(site.name): the display name of a site.
Name(s) ==
    [scheme |-> IF s.kind = "Unix" THEN "http://unix:" ELSE "http://",
     addr |-> s.addr, port |-> s.port]

\* Position of a display name in the lexicographic order of strings:
\* "http://0.0.0.0" < "http://a" < "http://b" < "http://localhost"
\* < "http://s" < "http://unix:/x:".
NameRank(n) ==
    IF n.scheme = "http://unix:" THEN 6
    ELSE CASE n.addr = WildcardHost -> 1
           [] n.addr = "a" -> 2
           [] n.addr = "b" -> 3
           [] n.addr = "localhost" -> 4
           [] OTHER -> 5

RECURSIVE InsertSorted(_, _)
InsertSorted(n, q) ==
    IF q = <<>> THEN <<n>>
    ELSE IF NameRank(n) <= NameRank(Head(q)) THEN <<n>> \o q
    ELSE <<Head(q)>> \o InsertSorted(n, Tail(q))

RECURSIVE Sorted(_)
Sorted(q) ==
    IF q = <<>> THEN <<>> ELSE InsertSorted(Head(q), Sorted(Tail(q)))

ReportNamesInInsertionOrder(reg, ss) ==
    [i \in 1..Len(reg) |-> Name(ss[reg[i]])]

\* names = sorted(str(s.name) for s in runner.sites)
ReportNames(reg, ss) == Sorted([i \in 1..Len(reg) |-> Name(ss[reg[i]])])

\* ---------------------------------------------------------------- run_app
Interrupted(phase) == interrupts' = Append(interrupts, phase)

\* run_app is left: by `return` (e = NoExc) or by the exception e.
Leave(e) ==
    /\ result' = IF e = NoExc THEN "returned" ELSE "raised"
    /\ raised' = e
    /\ pc' = IF caller = "main" THEN "main_after" ELSE "done"

\* if asyncio.iscoroutine(app): app = loop.run_until_complete(app)
AppReady ==
    /\ pc = "app"
    /\ pc' = "setup"
    /\ UNCHANGED <<args, hist, sites, siteState, nextSite, registered, exc,
                   result, raised, setupDone, cleanupCalls, cleanupDone,
                   loopClosed, factoryCalled, exitCode>>

AppAwaitFail ==
    /\ pc = "app"
    /\ Leave(Exc("AppError", 0))
    /\ UNCHANGED <<args, hist, sites, siteState, nextSite, registered, exc,
                   setupDone, cleanupCalls, cleanupDone, loopClosed,
                   factoryCalled, exitCode>>

\* loop.run_until_complete(runner.setup()), before the try statement
SetupOk ==
    /\ pc = "setup"
    /\ setupDone' = TRUE
    /\ pc' = "build"
    /\ UNCHANGED <<args, hist, sites, siteState, nextSite, registered, exc,
                   result, raised, cleanupCalls, cleanupDone, loopClosed,
                   factoryCalled, exitCode>>

SetupFailSwallowed ==
    /\ pc = "setup"
    /\ pc' = "build"
    /\ UNCHANGED <<args, hist, sites, siteState, nextSite, registered, exc,
                   result, raised, setupDone, cleanupCalls, cleanupDone,
                   loopClosed, factoryCalled, exitCode>>

SetupFail ==
    /\ pc = "setup"
    /\ Leave(Exc("SetupError", 0))
    /\ UNCHANGED <<args, hist, sites, siteState, nextSite, registered, exc,
                   setupDone, cleanupCalls, cleanupDone, loopClosed,
                   factoryCalled, exitCode>>

SetupInterrupt ==
    /\ pc = "setup"
    /\ \E k \in InterruptKinds : Leave(Exc(k, 0))
    /\ Interrupted("setup")
    /\ UNCHANGED <<args, startCalls, startedOk, reports, servedWith, sites,
                   siteState, nextSite, registered, exc, setupDone,
                   cleanupCalls, cleanupDone, loopClosed, factoryCalled,
                   exitCode>>

BuildSkipsStartLoop ==
    /\ pc = "build"
    /\ sites' = BuildSites(host, port, path, sock, opts)
    /\ siteState' = [i \in 1..Len(sites') |-> "created"]
    /\ nextSite' = 1
    /\ pc' = "report"
    /\ UNCHANGED <<args, hist, registered, exc, result, raised, setupDone,
                   cleanupCalls, cleanupDone, loopClosed, factoryCalled,
                   exitCode>>

\* sites = []; the three appending blocks of the try statement all succeed
Build ==
    /\ pc = "build"
    /\ sites' = BuildSites(host, port, path, sock, opts)
    /\ siteState' = [i \in 1..Len(sites') |-> "created"]
    /\ nextSite' = 1
    /\ pc' = IF Len(sites') = 0 THEN "report" ELSE "start"
    /\ UNCHANGED <<args, hist, registered, exc, result, raised, setupDone,
                   cleanupCalls, cleanupDone, loopClosed, factoryCalled,
                   exitCode>>

BuildFailAfterStarting ==
    /\ pc = "build"
    /\ \E k \in 1..Len(BuildSites(host, port, path, sock, opts)) :
          /\ sites' = SubSeq(BuildSites(host, port, path, sock, opts),
                             1, k - 1)
          /\ exc' = Exc("ConstructError", k)
    /\ siteState' = [i \in 1..Len(sites') |-> "started"]
    /\ startCalls' = 1..Len(sites')
    /\ startedOk' = 1..Len(sites')
    /\ registered' = [i \in 1..Len(sites') |-> i]
    /\ pc' = "cleanup"
    /\ UNCHANGED <<args, reports, servedWith, interrupts, nextSite, result,
                   raised, setupDone, cleanupCalls, cleanupDone, loopClosed,
                   factoryCalled, exitCode>>

\* the constructor of the k-th site raises: the list keeps the sites
\* appended so far and control goes to the finally clause
BuildFail ==
    /\ pc = "build"
    /\ \E k \in 1..Len(BuildSites(host, port, path, sock, opts)) :
          /\ sites' = SubSeq(BuildSites(host, port, path, sock, opts), 1, k - 1)
          /\ exc' = Exc("ConstructError", k)
    /\ siteState' = [i \in 1..Len(sites') |-> "created"]
    /\ pc' = "cleanup"
    /\ UNCHANGED <<args, hist, nextSite, registered, result, raised,
                   setupDone, cleanupCalls, cleanupDone, loopClosed,
                   factoryCalled, exitCode>>

\* A site that has started is recorded in the runner's list of sites.
RunnerRegister(reg, i) == Append(reg, i)

StartBeginAllAtOnce ==
    /\ pc = "start"
    /\ startCalls' = startCalls \cup {i \in 1..Len(sites) : i >= nextSite}
    /\ siteState' = [i \in 1..Len(sites) |->
                        IF i >= nextSite /\ siteState[i] = "created"
                        THEN "starting" ELSE siteState[i]]
    /\ pc' = "starting"
    /\ UNCHANGED <<args, startedOk, reports, servedWith, interrupts, sites,
                   nextSite, registered, exc, result, raised, setupDone,
                   cleanupCalls, cleanupDone, loopClosed, factoryCalled,
                   exitCode>>

\* for site in sites: loop.run_until_complete(site.start())  -- the call
\* is made and the loop runs the coroutine
StartBegin ==
    /\ pc = "start"
    /\ startCalls' = startCalls \cup {nextSite}
    /\ siteState' = [siteState EXCEPT ![nextSite] = "starting"]
    /\ pc' = "starting"
    /\ UNCHANGED <<args, startedOk, reports, servedWith, interrupts, sites,
                   nextSite, registered, exc, result, raised, setupDone,
                   cleanupCalls, cleanupDone, loopClosed, factoryCalled,
                   exitCode>>

\* site.start() completes: the loop goes on to the next site, or ends
StartOk ==
    /\ pc = "starting"
    /\ UNCHANGED startCalls
    /\ startedOk' = startedOk \cup {nextSite}
    /\ siteState' = [siteState EXCEPT ![nextSite] = "started"]
    /\ registered' = RunnerRegister(registered, nextSite)
    /\ nextSite' = nextSite + 1
    /\ pc' = IF nextSite = Len(sites) THEN "report" ELSE "start"
    /\ UNCHANGED <<args, reports, servedWith, interrupts, sites, exc,
                   result, raised, setupDone, cleanupCalls, cleanupDone,
                   loopClosed, factoryCalled, exitCode>>

StartFailKeepsGoing ==
    /\ pc = "starting"
    /\ UNCHANGED startCalls
    /\ siteState' = [siteState EXCEPT ![nextSite] = "failed"]
    /\ exc' = Exc("StartError", nextSite)
    /\ nextSite' = nextSite + 1
    /\ pc' = IF nextSite = Len(sites) THEN "cleanup" ELSE "start"
    /\ UNCHANGED <<args, startedOk, reports, servedWith, interrupts, sites,
                   registered, result, raised, setupDone, cleanupCalls,
                   cleanupDone, loopClosed, factoryCalled, exitCode>>

StartFailSwallowed ==
    /\ pc = "starting"
    /\ UNCHANGED startCalls
    /\ siteState' = [siteState EXCEPT ![nextSite] = "failed"]
    /\ pc' = "report"
    /\ UNCHANGED <<args, startedOk, reports, servedWith, interrupts, sites,
                   nextSite, registered, exc, result, raised, setupDone,
                   cleanupCalls, cleanupDone, loopClosed, factoryCalled,
                   exitCode>>

\* site.start() raises: the loop is abandoned for the finally clause
StartFail ==
    /\ pc = "starting"
    /\ UNCHANGED startCalls
    /\ siteState' = [siteState EXCEPT ![nextSite] = "failed"]
    /\ exc' = Exc("StartError", nextSite)
    /\ pc' = "cleanup"
    /\ UNCHANGED <<args, startedOk, reports, servedWith, interrupts, sites,
                   nextSite, registered, result, raised, setupDone,
                   cleanupCalls, cleanupDone, loopClosed, factoryCalled,
                   exitCode>>

\* an interrupt is delivered while site.start() is awaited: it is outside
\* the inner try, so it travels through the finally clause like an error
StartInterrupt ==
    /\ pc = "starting"
    /\ UNCHANGED startCalls
    /\ siteState' = [siteState EXCEPT ![nextSite] = "interrupted"]
    /\ \E k \in InterruptKinds : exc' = Exc(k, nextSite)
    /\ Interrupted("start")
    /\ pc' = "cleanup"
    /\ UNCHANGED <<args, startedOk, reports, servedWith, sites, nextSite,
                   registered, result, raised, setupDone, cleanupCalls,
                   cleanupDone, loopClosed, factoryCalled, exitCode>>

\* if print: names = sorted(...); print(...)   then loop.run_forever()
Report ==
    /\ pc = "report"
    /\ reports' = IF printOn
                  THEN Append(reports, ReportNames(registered, sites))
                  ELSE reports
    /\ servedWith' = Append(servedWith, siteState)
    /\ pc' = "serve"
    /\ UNCHANGED <<args, startCalls, startedOk, interrupts, sites,
                   siteState, nextSite, registered, exc, result, raised,
                   setupDone, cleanupCalls, cleanupDone, loopClosed,
                   factoryCalled, exitCode>>

ServeInterruptPropagates ==
    /\ pc = "serve"
    /\ Interrupted("serve")
    /\ \E k \in InterruptKinds : exc' = Exc(k, 0)
    /\ pc' = "cleanup"
    /\ UNCHANGED <<args, startCalls, startedOk, reports, servedWith, sites,
                   siteState, nextSite, registered, result, raised,
                   setupDone, cleanupCalls, cleanupDone, loopClosed,
                   factoryCalled, exitCode>>

\* except (GracefulExit, KeyboardInterrupt): pass
ServeInterrupt ==
    /\ pc = "serve"
    /\ Interrupted("serve")
    /\ pc' = "cleanup"
    /\ UNCHANGED <<args, startCalls, startedOk, reports, servedWith, sites,
                   siteState, nextSite, registered, exc, result, raised,
                   setupDone, cleanupCalls, cleanupDone, loopClosed,
                   factoryCalled, exitCode>>

ServeErrorSwallowed ==
    /\ pc = "serve"
    /\ pc' = "cleanup"
    /\ UNCHANGED <<args, hist, sites, siteState, nextSite, registered, exc,
                   result, raised, setupDone, cleanupCalls, cleanupDone,
                   loopClosed, factoryCalled, exitCode>>

\* any other exception leaves loop.run_forever()
ServeError ==
    /\ pc = "serve"
    /\ exc' = Exc("ServeError", 0)
    /\ pc' = "cleanup"
    /\ UNCHANGED <<args, hist, sites, siteState, nextSite, registered,
                   result, raised, setupDone, cleanupCalls, cleanupDone,
                   loopClosed, factoryCalled, exitCode>>

\* finally: loop.run_until_complete(runner.cleanup())
CleanupBegin ==
    /\ pc = "cleanup"
    /\ cleanupCalls' = cleanupCalls + 1
    /\ pc' = "cleaning"
    /\ UNCHANGED <<args, hist, sites, siteState, nextSite, registered, exc,
                   result, raised, setupDone, cleanupDone, loopClosed,
                   factoryCalled, exitCode>>

\* runner.cleanup() stops the next registered site
CleanupStop ==
    /\ pc = "cleaning"
    /\ registered # <<>>
    /\ siteState' = [siteState EXCEPT ![Head(registered)] = "stopped"]
    /\ registered' = Tail(registered)
    /\ UNCHANGED <<args, hist, pc, sites, nextSite, exc, result, raised,
                   setupDone, cleanupCalls, cleanupDone, loopClosed,
                   factoryCalled, exitCode>>

\* runner.cleanup() completes; the finally clause re-raises the exception
\* in flight, if any, else control reaches the code after the try statement
CleanupFinish ==
    /\ pc = "cleaning"
    /\ registered = <<>>
    /\ cleanupDone' = cleanupDone + 1
    /\ IF exc = NoExc
       THEN pc' = "final" /\ UNCHANGED <<result, raised>>
       ELSE Leave(exc)
    /\ exc' = NoExc
    /\ UNCHANGED <<args, hist, sites, siteState, nextSite, registered,
                   setupDone, cleanupCalls, loopClosed, factoryCalled,
                   exitCode>>

\* an interrupt is delivered while runner.cleanup() is awaited: nothing
\* catches it, it replaces the exception in flight and leaves run_app
CleanupInterrupt ==
    /\ pc = "cleaning"
    /\ Interrupted("cleanup")
    /\ \E k \in InterruptKinds : Leave(Exc(k, 0))
    /\ exc' = NoExc
    /\ UNCHANGED <<args, startCalls, startedOk, reports, servedWith, sites,
                   siteState, nextSite, registered, setupDone, cleanupCalls,
                   cleanupDone, loopClosed, factoryCalled, exitCode>>

\* loop.run_until_complete(loop.shutdown_asyncgens()); loop.close()
Final ==
    /\ pc = "final"
    /\ loopClosed' = TRUE
    /\ Leave(NoExc)
    /\ UNCHANGED <<args, hist, sites, siteState, nextSite, registered, exc,
                   setupDone, cleanupCalls, cleanupDone, factoryCalled,
                   exitCode>>

\* ------------------------------------------------------------------- main
\* arg_parser.error(...) and an uncaught exception end the process with a
\* non-zero status; arg_parser.exit(message=...) ends it with status 0.
Exit(code) == exitCode' = code /\ pc' = "done"

\* "Import logic": entry-func syntax, relative names, import, getattr
MainImport ==
    /\ pc = "main_import"
    /\ IF argv.entry # "ok" THEN Exit(2)
       ELSE pc' = "main_compat" /\ UNCHANGED exitCode
    /\ UNCHANGED <<args, hist, sites, siteState, nextSite, registered, exc,
                   result, raised, setupDone, cleanupCalls, cleanupDone,
                   loopClosed, factoryCalled>>

MainCompatNoCheck ==
    /\ pc = "main_compat"
    /\ pc' = "main_factory"
    /\ UNCHANGED <<args, hist, sites, siteState, nextSite, registered, exc,
                   result, raised, setupDone, cleanupCalls, cleanupDone,
                   loopClosed, factoryCalled, exitCode>>

\* "Compatibility logic": a path needs socket.AF_UNIX
MainCompat ==
    /\ pc = "main_compat"
    /\ IF argv.path # None /\ ~argv.afUnix THEN Exit(2)
       ELSE pc' = "main_factory" /\ UNCHANGED exitCode
    /\ UNCHANGED <<args, hist, sites, siteState, nextSite, registered, exc,
                   result, raised, setupDone, cleanupCalls, cleanupDone,
                   loopClosed, factoryCalled>>

\* app = func(extra_argv); run_app(app, host=args.hostname,
\*                                 port=args.port, path=args.path)
MainFactory ==
    /\ pc = "main_factory"
    /\ factoryCalled' = TRUE
    /\ host' = One(argv.hostname)
    /\ port' = One(argv.port)
    /\ path' = argv.path
    /\ pc' = "app"
    /\ UNCHANGED <<caller, argv, sock, printOn, opts, hist, sites, siteState,
                   nextSite, registered, exc, result, raised, setupDone,
                   cleanupCalls, cleanupDone, loopClosed, exitCode>>

\* the application factory raises
MainFactoryFail ==
    /\ pc = "main_factory"
    /\ factoryCalled' = TRUE
    /\ Exit(1)
    /\ UNCHANGED <<args, hist, sites, siteState, nextSite, registered, exc,
                   result, raised, setupDone, cleanupCalls, cleanupDone,
                   loopClosed>>

\* arg_parser.exit(message="Stopped\n")
MainExit ==
    /\ pc = "main_after"
    /\ result = "returned"
    /\ Exit(0)
    /\ UNCHANGED <<args, hist, sites, siteState, nextSite, registered, exc,
                   result, raised, setupDone, cleanupCalls, cleanupDone,
                   loopClosed, factoryCalled>>

\* run_app raised: the exception leaves main uncaught
MainUncaught ==
    /\ pc = "main_after"
    /\ result = "raised"
    /\ Exit(1)
    /\ UNCHANGED <<args, hist, sites, siteState, nextSite, registered, exc,
                   result, raised, setupDone, cleanupCalls, cleanupDone,
                   loopClosed, factoryCalled>>

Next ==
    \/ AppReady \/ AppAwaitFail
    \/ SetupOk \/ SetupFail \/ SetupInterrupt
    \/ Build \/ BuildFail
    \/ StartBegin \/ StartOk \/ StartFail \/ StartInterrupt
    \/ Report
    \/ ServeInterrupt \/ ServeError
    \/ CleanupBegin \/ CleanupStop \/ CleanupFinish \/ CleanupInterrupt
    \/ Final
    \/ MainImport \/ MainCompat \/ MainFactory \/ MainFactoryFail
    \/ MainExit \/ MainUncaught

Spec == Init /\ [][Next]_vars

\* ------------------------------------------------------------- vocabulary
Ended == result # "none"
IsInterrupt(e) == e.kind \in InterruptKinds
IsError(e) == e.kind \in ErrorKinds

TypeOK ==
    /\ pc \in {"app", "setup", "build", "start", "starting", "report", "serve",
               "cleanup", "cleaning", "final", "done", "main_import",
               "main_compat", "main_factory", "main_after"}
    /\ result \in {"none", "returned", "raised"}
    /\ Len(siteState) = Len(sites)
    /\ cleanupCalls \in 0..1
    /\ exitCode \in {-1, 0, 1, 2}

\* The whole site list was built (no constructor raised).
Built == nextSite >= 1
AllSites == 1..Len(sites)
OfKind(k) == SelectSeq(sites, LAMBDA st : st.kind = k)
Addrs(q) == [i \in 1..Len(q) |-> q[i].addr]
\* What a site is bound to: its kind, its address and its port.
Binding(st) == <<st.kind, st.addr, st.port>>
Bindings == [i \in AllSites |-> Binding(sites[i])]
SomeStartFailed == \E i \in AllSites : siteState[i] = "failed"

\* ----------------------------------------------------------------- claims

\* C1: every run of run_app that gets as far as runner.setup(), however it
\* ends (setup failure included), has invoked runner.cleanup() exactly once
\* by the time it ends, and never twice.
C1_CleanupExactlyOnce ==
    /\ cleanupCalls <= 1
    /\ (Ended /\ raised.kind # "AppError" => cleanupCalls = 1)

\* C2: when run_app has ended, on whatever path (an interrupt during
\* startup or cleanup included), every site whose start() completed has
\* been stopped.
C2_StartedSitesStopped ==
    Ended => \A i \in startedOk : siteState[i] = "stopped"

\* C3: when run_app ends with the error of the k-th site's start(), the
\* sites 1..k-1 (which had started) are stopped, start() was never invoked
\* on the sites k+1..n, and the error was raised after cleanup completed;
\* while that error is in flight no later site is started.
C3_PartialStartupSafety ==
    /\ exc.kind = "StartError" =>
          \A i \in AllSites : i > exc.site => i \notin startCalls
    /\ Ended /\ raised.kind = "StartError" =>
          /\ result = "raised"
          /\ cleanupCalls = 1 /\ cleanupDone = 1
          /\ \A i \in AllSites :
                /\ i < raised.site =>
                      i \in startedOk /\ siteState[i] = "stopped"
                /\ i > raised.site =>
                      i \notin startCalls /\ siteState[i] = "created"

C3_Witness ==
    /\ Ended /\ raised = Exc("StartError", 2)
    /\ Len(sites) = 3
    /\ \A i \in AllSites : sites[i].kind = "TCP"
    /\ siteState = <<"stopped", "failed", "created">>

\* The hosts the rules give TCP sites to: the given host or hosts, else
\* the wildcard host if and only if (no path and no sock) or a port.
C4_TCPHosts ==
    IF host # None THEN host.val
    ELSE IF (path = None /\ sock = None) \/ port # None
         THEN <<WildcardHost>>
         ELSE <<>>

\* C4: the site list built by run_app is exactly the union of the matching
\* rules: one TCP site per host (else the wildcard site under its
\* condition), all on the given port, one Unix site per path, one socket
\* site per sock, and nothing else; with the four named examples.
C4_BuilderIsUnionOfRules ==
    Built =>
       /\ Addrs(OfKind("TCP")) = C4_TCPHosts
       /\ \A i \in AllSites : sites[i].kind = "TCP" => sites[i].port = port
       /\ Addrs(OfKind("Unix")) = path.val
       /\ Addrs(OfKind("Sock")) = sock.val
       /\ Len(sites) = Len(C4_TCPHosts) + Len(path.val) + Len(sock.val)
       /\ (host = Many(<<"a", "b">>) /\ port = One(9) /\ path = None
              /\ sock = None
           => Bindings = <<<<"TCP", "a", One(9)>>, <<"TCP", "b", One(9)>>>>)
       /\ (host = None /\ port = One(9) /\ path = None /\ sock = None
           => Bindings = <<<<"TCP", WildcardHost, One(9)>>>>)
       /\ (host = None /\ port = None /\ path = One("/x") /\ sock = None
           => Bindings = <<<<"Unix", "/x", None>>>>)
       /\ (host = None /\ port = One(9) /\ path = One("/x") /\ sock = None
           => Bindings = <<<<"TCP", WildcardHost, One(9)>>,
                           <<"Unix", "/x", None>>>>)

C4_Witness ==
    /\ Built
    /\ host = None /\ port = One(9) /\ path = One("/x")
    /\ sock = Many(<<"s", "s">>)
    /\ Len(sites) = 4

\* C5 (as stated): the site list built by run_app is never empty, for every
\* combination of arguments, empty sequences included.
C5_SitesNeverEmpty ==
    Built => Len(sites) >= 1

NoEmptySequence ==
    \A a \in {host, path, sock} : a.kind = "seq" => Len(a.val) >= 1

\* C5 (amended): the site list built by run_app is not empty whenever none
\* of host, path and sock is an empty sequence.
C5_SitesNonEmptyUnlessEmptySeq ==
    Built /\ NoEmptySequence => Len(sites) >= 1

C5_Witness ==
    /\ Built /\ NoEmptySequence
    /\ caller = "direct"
    /\ host = None /\ port = None /\ path = None /\ sock = None
    /\ Bindings = <<<<"TCP", WildcardHost, None>>>>

\* C6: a run whose one interrupt is delivered in the serve-wait does not
\* raise: cleanup has run, the loop is closed, run_app returns and main
\* exits with status 0; a run in which runner.setup() did not complete or a
\* site.start() failed leaves run_app by an exception and main exits with
\* a non-zero status.
C6_InterruptExitsZeroFailureNonZero ==
    /\ Ended /\ interrupts = <<"serve">> =>
          /\ result = "returned" /\ raised = NoExc
          /\ cleanupCalls = 1 /\ cleanupDone = 1
          /\ loopClosed
    /\ pc = "done" /\ caller = "main" /\ interrupts = <<"serve">> =>
          exitCode = 0
    /\ Ended /\ (~setupDone \/ SomeStartFailed) => result = "raised"
    /\ pc = "done" /\ caller = "main" /\ factoryCalled
          /\ (~setupDone \/ SomeStartFailed) => exitCode > 0

C6_Witness ==
    /\ pc = "done" /\ caller = "main"
    /\ interrupts = <<"serve">>
    /\ result = "returned" /\ exitCode = 0

\* C7: run_app never raises an interrupt (GracefulExit, KeyboardInterrupt)
\* to its caller, in whichever phase the interrupt was delivered.
C7_InterruptNeverPropagates ==
    ~IsInterrupt(raised)

\* C8: the report is printed at most once, only when every site of the
\* list has completed start() and on the way into the serve-wait, it names
\* every started site, and it is never printed in a run where
\* runner.setup() or a site.start() fails.
C8_ReportOnlyAfterAllStarted ==
    /\ Len(reports) <= 1
    /\ Len(reports) <= Len(servedWith)
    /\ (pc \in {"app", "setup", "build", "start", "starting", "report"}
           => reports = <<>>)
    /\ (~setupDone \/ SomeStartFailed => reports = <<>>)
    /\ reports # <<>> =>
          /\ Built
          /\ startedOk = AllSites
          /\ \A i \in AllSites : servedWith[1][i] = "started"
          /\ Len(reports[1]) = Len(sites)
          /\ \A i \in AllSites :
                \E j \in 1..Len(reports[1]) : reports[1][j] = Name(sites[i])

C8_Witness ==
    /\ pc = "serve"
    /\ Len(reports) = 1
    /\ Len(sites) >= 3
    /\ \E i, j \in AllSites : sites[i].kind # sites[j].kind

\* C9: when main is given a path, the run builds only the Unix site of
\* that path and no TCP site from hostname and port.
C9_PathIgnoresHostAndPort ==
    caller = "main" /\ argv.path # None /\ Built =>
       \A i \in AllSites : sites[i].kind = "Unix"

\* C10: main given a path on a platform without AF_UNIX ends with a
\* non-zero status without calling the application factory, entering
\* run_app, building a site, or any setup, start or cleanup.
C10_NoUnixSupportFailsEarly ==
    caller = "main" /\ argv.path # None /\ ~argv.afUnix =>
       /\ pc \in {"main_import", "main_compat", "done"}
       /\ ~factoryCalled
       /\ sites = <<>> /\ ~setupDone
       /\ startCalls = {} /\ cleanupCalls = 0
       /\ result = "none"
       /\ (pc = "done" => exitCode > 0)

C10_Witness ==
    /\ caller = "main" /\ argv.entry = "ok"
    /\ argv.path # None /\ ~argv.afUnix
    /\ pc = "done" /\ exitCode = 2

\* C11: while runner.setup() has not completed no site is constructed or
\* started, nothing is reported and the serve-wait is not entered; a run in
\* which setup raises ends there, with the setup error raised to the caller.
C11_SetupBeforeSites ==
    /\ ~setupDone =>
          /\ sites = <<>> /\ startCalls = {}
          /\ reports = <<>> /\ servedWith = <<>>
          /\ pc \notin {"build", "start", "starting", "report", "serve"}
    /\ raised.kind = "SetupError" =>
          /\ Ended /\ result = "raised" /\ ~setupDone
          /\ sites = <<>> /\ startCalls = {}
          /\ reports = <<>> /\ servedWith = <<>>

C11_Witness ==
    /\ caller = "direct" /\ host # None
    /\ pc = "done" /\ raised = Exc("SetupError", 0)

\* C12 (as stated): every site of the list has begun start(), and every
\* start has settled, before the driver goes on to the serve-wait or to
\* cleanup (runs without any interrupt).
C12_AllSitesStartConcurrently ==
    Built /\ interrupts = <<>> /\ pc \notin {"start", "starting"} =>
       /\ startCalls = AllSites
       /\ \A i \in AllSites : siteState[i] \notin {"created", "starting"}

\* C12 (amended): sites are started one after the other in list order: a
\* site's start() begins only when the start() of every earlier site has
\* completed successfully, at most one start is in progress, the serve-wait
\* is entered only when all have completed, and cleanup begins as soon as
\* one start fails, with no start in progress and the later sites unstarted.
C12_SitesStartSequentially ==
    /\ \A i \in startCalls : \A j \in 1..(i - 1) : j \in startedOk
    /\ Cardinality({i \in AllSites : siteState[i] = "starting"}) <= 1
    /\ (pc = "serve" => startedOk = AllSites)
    /\ (pc \in {"cleanup", "cleaning"} =>
           \A i \in AllSites : siteState[i] # "starting")
    /\ (exc.kind = "StartError" =>
           startCalls = 1..exc.site /\ startedOk = 1..(exc.site - 1))

C12_Witness ==
    /\ pc = "starting" /\ nextSite = 2
    /\ Len(sites) >= 3
    /\ siteState[1] = "started" /\ siteState[2] = "starting"
    /\ siteState[3] = "created"

\* C13: the driver is in the serve-wait only with every site of the list
\* started: none unstarted, still starting or failed.
C13_ServeOnlyWhenAllStarted ==
    /\ pc = "serve" =>
          /\ Built /\ exc = NoExc
          /\ \A i \in AllSites : siteState[i] = "started"
    /\ \A k \in 1..Len(servedWith) :
          /\ Len(servedWith[k]) = Len(sites)
          /\ \A i \in AllSites : servedWith[k][i] = "started"

C13_Witness ==
    /\ pc = "serve" /\ ~printOn
    /\ Len(sites) >= 2
    /\ startedOk = AllSites

\* C14: a run interrupted in the serve-wait and interrupted again during
\* runner.cleanup() still completes the cleanup: every started site is
\* stopped and run_app completes its shutdown.
C14_SecondInterruptKeepsCleanup ==
    Ended /\ interrupts = <<"serve", "cleanup">> =>
       /\ cleanupDone = 1
       /\ \A i \in startedOk : siteState[i] = "stopped"
       /\ result = "returned" /\ loopClosed

\* C15: every site of the list, of any kind, carries the caller's
\* shutdown_timeout, ssl_context and backlog; reuse_address and reuse_port
\* are passed to TCP sites and to no other.
C15_SitesShareOptions ==
    \A i \in AllSites :
       /\ sites[i].shutdown_timeout = opts.shutdown_timeout
       /\ sites[i].ssl_context = opts.ssl_context
       /\ sites[i].backlog = opts.backlog
       /\ IF sites[i].kind = "TCP"
          THEN /\ sites[i].reuse_address = opts.reuse_address
               /\ sites[i].reuse_port = opts.reuse_port
          ELSE /\ sites[i].reuse_address = NotPassed
               /\ sites[i].reuse_port = NotPassed

C15_Witness ==
    /\ Built /\ opts # DefaultOpts
    /\ \A k \in {"TCP", "Unix", "Sock"} : Len(OfKind(k)) >= 1

\* C16 (as stated): the names of the report are in the insertion order of
\* the site list.
C16_ReportInInsertionOrder ==
    reports # <<>> => reports[1] = [i \in AllSites |-> Name(sites[i])]

\* C16 (amended): the names of the report are the names of the sites in
\* sorted (lexicographic) order, whatever the insertion order.
C16_ReportInSortedOrder ==
    reports # <<>> =>
       /\ Len(reports[1]) = Len(sites)
       /\ \A j, k \in 1..Len(reports[1]) :
             j < k => NameRank(reports[1][j]) <= NameRank(reports[1][k])
       /\ \A i \in AllSites :
             Cardinality({j \in 1..Len(reports[1]) :
                             reports[1][j] = Name(sites[i])})
             = Cardinality({j \in AllSites : Name(sites[j]) = Name(sites[i])})

C16_Witness ==
    /\ reports # <<>>
    /\ host = Many(<<"b", "a">>) /\ path # None
    /\ reports[1][1].addr = "a" /\ reports[1][2].addr = "b"

\* C17: the loop is closed on every exit of run_app, normal or by a setup,
\* construction, start or serve-wait error, and never before cleanup has
\* completed.
C17_LoopClosedOnEveryExit ==
    /\ loopClosed => cleanupDone = 1
    /\ Ended /\ ~IsInterrupt(raised) /\ raised.kind # "AppError" =>
          loopClosed

\* A constructor raised while the site list was being built.
ConstructFailed == setupDone /\ ~Built /\ pc # "build"

\* C18: start() is invoked only once the whole list is built; when a
\* constructor raises, no site is started, nothing is reported, the
\* serve-wait is not entered, cleanup is invoked once, and (no interrupt
\* intervening) the construction error is raised after cleanup completed.
C18_NoStartBeforeAllBuilt ==
    /\ startCalls # {} => Built
    /\ raised.kind = "ConstructError" \/ exc.kind = "ConstructError"
          => ConstructFailed
    /\ ConstructFailed =>
          /\ startCalls = {} /\ startedOk = {}
          /\ reports = <<>> /\ servedWith = <<>>
          /\ pc \in {"cleanup", "cleaning", "main_after", "done"}
    /\ Ended /\ ConstructFailed => cleanupCalls = 1 /\ result = "raised"
    /\ Ended /\ ConstructFailed /\ interrupts = <<>> =>
          raised.kind = "ConstructError" /\ cleanupDone = 1

C18_Witness ==
    /\ pc = "done" /\ raised = Exc("ConstructError", 2)
    /\ Len(sites) = 1 /\ siteState = <<"created">>
    /\ cleanupDone = 1

\* C19: an exception other than an interrupt that leaves the serve-wait is
\* not swallowed: cleanup runs once to completion, then the exception is
\* raised to the caller, and the loop is not closed.
C19_ServeErrorPropagates ==
    /\ exc.kind = "ServeError" =>
          pc \in {"cleanup", "cleaning"} /\ ~loopClosed
    /\ Ended /\ raised.kind = "ServeError" =>
          /\ result = "raised"
          /\ cleanupCalls = 1 /\ cleanupDone = 1
          /\ ~loopClosed
    /\ Ended /\ servedWith # <<>> /\ interrupts = <<>> =>
          raised.kind = "ServeError"

C19_Witness ==
    /\ pc = "done" /\ raised = Exc("ServeError", 0)
    /\ Len(sites) >= 1
    /\ \A i \in AllSites : siteState[i] = "stopped"

====
